---- MODULE Spec2Model ----
(***************************************************************************)
(* A model of the streaming jobs of main_api.py (the single-pose job of    *)
(* process_video_stream and the batch comparison job of compare_videos:    *)
(* one worker thread, one queue.Queue and one event_generator per job) and *)
(* of the LiveComparisonSession of pose_comparison.py.                     *)
(*                                                                         *)
(* Worker threads are interleaved with each other and with the transport   *)
(* (event loop) thread at every access to shared state: the job's queue,   *)
(* the process-wide sys.stdout, the files on disk, Thread.is_alive().      *)
(* Program positions are named after the source line they stand at.        *)
(***************************************************************************)
EXTENDS Integers, Sequences, FiniteSets, TLC

\* ------------------------------------------------------------------ bounds
MaxFrames == 1
MaxRefFrames == 2
MaxCalls == 3
MaxCloses == 2
MaxCoord == 2
MaxThreshold == 2
MaxPoints == 2
MaxLandmark == 3
MaxTotalFrames == 21
MaxList == 3

\* ------------------------------------------------------- program constants
\* "if i % 10 == 0" in process_video_files
ProgressEvery == 10

\* Two jobs run at the same time.  Job 1, of either kind, is observed in full:
\* its worker, its queue and its event_generator.  Job 2 is a single-pose job
\* (the kind that redirects sys.stdout) running beside it: its worker and its
\* handler run the same code, and everything they do to shared state (sys.stdout,
\* what they print and where it lands) is kept; of its queue only the threads
\* that put on it are kept, and its generator's loop ends at any moment (as a
\* client disconnect at a suspension makes it do).
Jobs == {1, 2}
Observed == {1}
KindsOf(j) == IF j \in Observed THEN {"pose", "compare"} ELSE {"pose"}
\* The thread that runs the event loop (handlers, generators, cleanup_files).
Transport == 0
\* sys.stdout as it is before any job redirects it.
RealStdout == 0
\* A local name of a worker before its first assignment.
Unbound == -1

PoseFiles == {"upload", "json2d", "video2d", "json3d", "npy3d"}
CompareFiles == {"upload", "ref_upload", "sbs", "annotated"}

VARIABLES
    kind,             \* the endpoint a job came through: "none", "pose", "compare"
    wpc,              \* position of the job's worker thread
    cpc,              \* position of the job's event_generator
    chan,             \* result_queue: the items not yet taken
    pushed,           \* history: every item the job's worker put on result_queue
    foreign,          \* history: the other threads that put an item on result_queue
    relayed,          \* history: the events yielded for the items of `pushed`
    stdout,           \* sys.stdout: RealStdout, or j for the QueueIO of job j
    original_stdout,  \* the worker's local original_stdout (Unbound before line 149)
    result,           \* what run_full_pipeline returned: "unset", "None", "tuple"
    disk,             \* the job's files that exist on disk
    files_to_cleanup, \* the generator's files_to_cleanup
    total_frames,     \* process_video_files: total_frames
    fi,               \* process_video_files: the loop index i
    after,            \* where the generator goes when resumed from a yield
    disconnected,     \* the client left while the generator was suspended
    raised,           \* the generator body raised an exception
    faulted,          \* the job's work raised an exception at some stage
    handles,          \* the cv2 captures and writers of the job that are open
    user_opened       \* process_video_files: what user_cap.isOpened() gave

jobvars == <<kind, wpc, cpc, chan, pushed, foreign, relayed, stdout, original_stdout,
             result, disk, files_to_cleanup, total_frames, fi, after,
             disconnected, raised, faulted, handles, user_opened>>

\* The frame sizes a client sends; the first is the provisional size of
\* _initialize_recording (self.width = 640, self.height = 480).
ProvisionalSize == "640x480"
Sizes == {"640x480", "1280x720", "320x240"}

VARIABLES
    is_recording,     \* LiveComparisonSession.is_recording
    video_writer,     \* self.video_writer: [opened, size] of the cv2.VideoWriter
    frame_size,       \* (self.height, self.width)
    ref_opened,       \* self.comparison.ref_cap.isOpened()
    ref_pos,          \* the position of ref_cap: the index of the next frame
    ref_frames,       \* the number of frames the reference video holds
    recording,        \* the frames in the file at output_path, by call number
    ncalls,           \* history: the number of process_frame calls so far
    succeeded,        \* history: the calls that returned a comparison result
    last_return,      \* what the last call returned
    ncloses,          \* history: the number of close() calls so far
    after_close,      \* history: process_frame was called after a close()
    returns,          \* history: what each process_frame call returned
    compared,         \* history: the reference frame each decodable call read
    releases,         \* history: the release() calls made on the writer and on ref_cap
    close_returns     \* history: what each close() call returned

sessionvars == <<is_recording, video_writer, frame_size, ref_opened, ref_pos,
                 ref_frames, recording, ncalls, succeeded, last_return, ncloses,
                 after_close, returns, compared, releases, close_returns>>

VARIABLES
    hpc,              \* position of the websocket_compare_live handler
    session,          \* the handler's local `session` is not None
    ref_isfile,       \* os.path.isfile(ref_video_path)
    exit_by,          \* history: how the handler left its try block
    ws_events,        \* history: close, annotation and os.remove, in order
    ws_handles,       \* the captures and the writer of the annotation that are open
    annotated         \* the frames in the annotated file: [frame, ref] each

wsvars == <<hpc, session, ref_isfile, exit_by, ws_events, ws_handles, annotated>>

livevars == <<sessionvars, wsvars>>

VARIABLES
    pose1,            \* _calculate_score: the first keypoint array, or None
    pose2,            \* the second keypoint array, or None
    threshold,        \* the threshold argument
    score,            \* the score returned, a fraction [num, den]
    wrong_keypoints,  \* the set of indices returned
    called            \* _calculate_score has returned

scorevars == <<pose1, pose2, threshold, score, wrong_keypoints, called>>

VARIABLES
    connections,      \* _draw_pose: mp_pose.POSE_CONNECTIONS, pairs of landmark indices
    visible,          \* the landmarks of main_results with visibility > 0.5
    flagged,          \* the wrong_keypoints argument: None, or a set of indices
    limb_color,       \* the colour of each limb drawn by cv2.line
    point_color,      \* the colour of each keypoint drawn by cv2.circle
    drawn             \* _draw_pose has returned

drawvars == <<connections, visible, flagged, limb_color, point_color, drawn>>

VARIABLES
    n_frames,         \* process_video_files: total_frames of the loop followed alone
    frame_i,          \* the loop index i
    loop_pc,          \* "loop", "finally" or "returned"
    written,          \* the number of frames written to the output video
    both_read,        \* history: the iterations in which both reads gave a frame
    stopped_early,    \* history: the loop left by its break
    loop_errors,      \* history: the number of error items put by the except clause
    progress          \* history: the progress items put, as [step, percentage]

loopvars == <<n_frames, frame_i, loop_pc, written, both_read, stopped_early,
              loop_errors, progress>>

VARIABLES
    cl_files,         \* cleanup_files: the list `files`
    cl_i,             \* the place in the list of the next file_path
    cl_fs,            \* each path on disk: "present", "absent" or "locked"
    cl_fs0,           \* history: cl_fs when cleanup_files was called
    cl_removes,       \* history: the paths os.remove was called on
    cl_raised,        \* an exception left cleanup_files
    cl_printed        \* history: the lines printed, by source line

cleanvars == <<cl_files, cl_i, cl_fs, cl_fs0, cl_removes, cl_raised, cl_printed>>

fnvars == <<scorevars, drawvars, loopvars, cleanvars>>

vars == <<jobvars, livevars, fnvars>>

\* --------------------------------------------------------- queue.Queue
\* queue.Queue.put on the queue of job j by thread `by`: append at the tail.
\* For the properties only, an item remembers which thread put it; an item put
\* by the job's own worker is added to the history `pushed` and remembers its
\* place there, and any other thread that puts is added to `foreign`.  Of the
\* queue of a job that is not observed only `foreign` is kept.
QPut(q, j, type, by, data) ==
    LET own == by = j
        it == [type |-> type, by |-> by, data |-> data,
               seq |-> IF own THEN Len(q.pushed[j]) + 1 ELSE 0]
    IN  [chan    |-> [q.chan EXCEPT ![j] = IF j \in Observed THEN Append(@, it) ELSE @],
         pushed  |-> [q.pushed EXCEPT ![j] =
                         IF own /\ j \in Observed THEN Append(@, it) ELSE @],
         foreign |-> [q.foreign EXCEPT ![j] = IF own THEN @ ELSE @ \cup {by}]]

\* A queue that hands out its newest item first.
GetNowaitLifo(q) == [msg |-> q[Len(q)], rest |-> SubSeq(q, 1, Len(q) - 1)]

\* queue.Queue.get_nowait on a non-empty queue: take the head.
GetNowait(q) == [msg |-> Head(q), rest |-> Tail(q)]

Q0 == [chan |-> chan, pushed |-> pushed, foreign |-> foreign]

SetQ(q) == chan' = q.chan /\ pushed' = q.pushed /\ foreign' = q.foreign

\* --------------------------------------------------------- QueueIO, print
\* str.strip() of the two strings print() writes: the text, then "\n".
Strip(s) == IF s = "\n" THEN "" ELSE s

\* QueueIO.write(s) on the QueueIO of job j, called by thread `by`.
QueueIOWrite(q, j, by, s) ==
    IF Strip(s) # "" THEN QPut(q, j, "log", by, s) ELSE q

\* sys.stdout.write(s): the real stdout keeps nothing the model looks at.
StdoutWrite(q, out, by, s) ==
    IF out \in Jobs THEN QueueIOWrite(q, out, by, s) ELSE q

\* print(text): write(text), write("\n") on the current sys.stdout.
PrintTo(q, out, by, text) ==
    StdoutWrite(StdoutWrite(q, out, by, text), out, by, "\n")

RECURSIVE PrintN(_, _, _, _, _)
PrintN(q, out, by, text, n) ==
    IF n = 0 THEN q ELSE PrintN(PrintTo(q, out, by, text), out, by, text, n - 1)

\* Thread.is_alive()
IsAlive(j) == wpc[j] \notin {"unstarted", "dead"}

InitJobs ==
    /\ kind = [j \in Jobs |-> "none"]
    /\ wpc = [j \in Jobs |-> "unstarted"]
    /\ cpc = [j \in Jobs |-> "idle"]
    /\ chan = [j \in Jobs |-> <<>>]
    /\ pushed = [j \in Jobs |-> <<>>]
    /\ foreign = [j \in Jobs |-> {}]
    /\ relayed = [j \in Jobs |-> <<>>]
    /\ stdout = RealStdout
    /\ original_stdout = [j \in Jobs |-> Unbound]
    /\ result = [j \in Jobs |-> "unset"]
    /\ disk = [j \in Jobs |-> {}]
    /\ files_to_cleanup = [j \in Jobs |-> {}]
    /\ total_frames = [j \in Jobs |-> 0]
    /\ fi = [j \in Jobs |-> 0]
    /\ after = [j \in Jobs |-> "get"]
    /\ disconnected = [j \in Jobs |-> FALSE]
    /\ raised = [j \in Jobs |-> FALSE]
    /\ faulted = [j \in Jobs |-> FALSE]
    /\ handles = [j \in Jobs |-> {}]
    /\ user_opened = [j \in Jobs |-> FALSE]

\* LiveComparisonSession.__init__ on a reference video of n frames (a file that
\* does not open as a video has none): PoseComparison opens ref_cap, and
\* _initialize_recording creates the VideoWriter of output_path at the
\* provisional size.
NewSession(opens, n) ==
    /\ ref_opened = opens
    /\ ref_frames = n
    /\ ref_pos = 0
    /\ frame_size = ProvisionalSize
    /\ video_writer = [opened |-> TRUE, size |-> ProvisionalSize]
    /\ is_recording = TRUE
    /\ recording = <<>>
    /\ ncalls = 0
    /\ succeeded = <<>>
    /\ last_return = "none"
    /\ ncloses = 0
    /\ after_close = FALSE
    /\ returns = <<>>
    /\ compared = <<>>
    /\ releases = [writer |-> 0, ref |-> 0]
    /\ close_returns = <<>>

\* No websocket_compare_live handler is running.
NoHandler ==
    /\ hpc = "idle"
    /\ session = FALSE
    /\ ref_isfile = TRUE
    /\ exit_by = "none"
    /\ ws_events = <<>>
    /\ ws_handles = {}
    /\ annotated = <<>>

\* A keypoint array: present with its points (reshape(-1, 2)), or None.
None == [present |-> FALSE, pts |-> <<>>]

\* _calculate_score has not been called.
NoScore ==
    /\ pose1 = None
    /\ pose2 = None
    /\ threshold = 0
    /\ score = [num |-> 0, den |-> 1]
    /\ wrong_keypoints = {}
    /\ called = FALSE

\* The wrong_keypoints argument left at its default.
NoFlags == [present |-> FALSE, set |-> {}]

\* _draw_pose has not been called.
NoDraw ==
    /\ connections = {}
    /\ visible = {}
    /\ flagged = NoFlags
    /\ limb_color = <<>>
    /\ point_color = <<>>
    /\ drawn = FALSE

\* The frame loop of process_video_files is not followed on its own.
NoLoop ==
    /\ n_frames = 0
    /\ frame_i = 0
    /\ loop_pc = "returned"
    /\ written = 0
    /\ both_read = 0
    /\ stopped_early = FALSE
    /\ loop_errors = 0
    /\ progress = <<>>

\* The paths cleanup_files may be given
Paths == {"a.mp4", "b.json", "c.npy"}

\* cleanup_files is not followed on its own.
NoCleanup ==
    /\ cl_files = <<>>
    /\ cl_i = 1
    /\ cl_fs = [f \in Paths |-> "absent"]
    /\ cl_fs0 = [f \in Paths |-> "absent"]
    /\ cl_removes = {}
    /\ cl_raised = FALSE
    /\ cl_printed = <<>>

\* None of the functions followed on their own has been called.
Idle == NoDraw /\ NoLoop /\ NoCleanup

\* The streaming jobs, no live session in use.
Init == InitJobs /\ NewSession(TRUE, 1) /\ NoHandler /\ NoScore /\ Idle

\* ------------------------------------------------------------ the handlers
\* save_upload_file: the upload is written to UPLOADS_DIR and the path printed
\* by the transport thread on whatever sys.stdout is at that moment.
SaveUploadFile(q, by) == PrintTo(q, stdout, by, "L95")

\* POST /process-video-stream/ (k = "pose") or /api/compare_videos/
\* (k = "compare") up to the return of the EventSourceResponse: the uploads are
\* saved; the generator has not started yet.
Request(j, k) ==
    /\ cpc[j] = "idle"
    /\ kind' = [kind EXCEPT ![j] = k]
    /\ cpc' = [cpc EXCEPT ![j] = "ready"]
    /\ IF k = "pose"
         THEN /\ disk' = [disk EXCEPT ![j] = {"upload"}]
              /\ SetQ(SaveUploadFile(Q0, Transport))
         ELSE /\ disk' = [disk EXCEPT ![j] = {"upload", "ref_upload"}]
              /\ SetQ(SaveUploadFile(SaveUploadFile(Q0, Transport), Transport))
    /\ UNCHANGED <<handles, user_opened, wpc, relayed, stdout, original_stdout, result,
                   files_to_cleanup, total_frames, fi, after, disconnected,
                   raised, faulted, livevars, fnvars>>

\* event_generator up to its first get_nowait(): a fresh queue, the initial
\* cleanup list, and the worker thread started.
CStart(j) ==
    /\ cpc[j] = "ready"
    /\ files_to_cleanup' = [files_to_cleanup EXCEPT ![j] =
           IF kind[j] = "pose" THEN {"upload"}
           ELSE {"upload", "ref_upload", "sbs", "annotated"}]
    /\ wpc' = [wpc EXCEPT ![j] = IF kind[j] = "pose" THEN "w149" ELSE "v204"]
    /\ cpc' = [cpc EXCEPT ![j] = "get"]
    /\ UNCHANGED <<handles, user_opened, kind, chan, pushed, foreign, relayed, stdout, original_stdout, result,
                   disk, total_frames, fi, after, disconnected, raised, faulted,
                   livevars, fnvars>>

\* ------------------------------------------- run_pipeline_in_thread (worker)
WUnchangedConsumer ==
    UNCHANGED <<kind, cpc, relayed, files_to_cleanup, after, disconnected, raised,
                livevars, fnvars>>

\* line 149: original_stdout = sys.stdout
WSaveStdout(j) ==
    /\ wpc[j] = "w149"
    /\ original_stdout' = [original_stdout EXCEPT ![j] = stdout]
    /\ wpc' = [wpc EXCEPT ![j] = "w150"]
    /\ WUnchangedConsumer
    /\ UNCHANGED <<handles, user_opened, chan, pushed, foreign, stdout, result, disk, total_frames, fi, faulted>>

\* line 150: sys.stdout = QueueIO(result_queue)
WRedirect(j) ==
    /\ wpc[j] = "w150"
    /\ stdout' = j
    /\ wpc' = [wpc EXCEPT ![j] = "p24"]
    /\ WUnchangedConsumer
    /\ UNCHANGED <<handles, user_opened, chan, pushed, foreign, original_stdout, result, disk, total_frames, fi, faulted>>

\* run_full_pipeline lines 24-29: the first narration prints
WPipelineStart(j) ==
    /\ wpc[j] = "p24"
    /\ SetQ(PrintTo(PrintTo(Q0, stdout, j, "L24"), stdout, j, "L29"))
    /\ wpc' = [wpc EXCEPT ![j] = "d33"]
    /\ WUnchangedConsumer
    /\ UNCHANGED <<handles, user_opened, stdout, original_stdout, result, disk, total_frames, fi, faulted>>

\* run_full_pipeline lines 33-45: pose_detector.detect_poses_from_video raises
\* (out to the except of run_pipeline_in_thread); or finds no pose: print,
\* return None; or writes the 2D JSON and the 2D pose video and returns the
\* poses: two prints, on to the 3D stage.
WDetect(j) ==
    /\ wpc[j] = "d33"
    /\ \E outcome \in {"raise", "empty", "poses"} :
         CASE outcome = "raise" ->
                /\ wpc' = [wpc EXCEPT ![j] = "w154"]
                /\ faulted' = [faulted EXCEPT ![j] = TRUE]
                /\ UNCHANGED <<chan, pushed, foreign, disk, result>>
           [] outcome = "empty" ->
                /\ SetQ(PrintTo(Q0, stdout, j, "L40"))
                /\ result' = [result EXCEPT ![j] = "None"]
                /\ wpc' = [wpc EXCEPT ![j] = "w152"]
                /\ UNCHANGED <<disk, faulted>>
           [] OTHER ->
                /\ disk' = [disk EXCEPT ![j] = @ \cup {"json2d", "video2d"}]
                /\ SetQ(PrintTo(PrintTo(Q0, stdout, j, "L42"), stdout, j, "L45"))
                /\ wpc' = [wpc EXCEPT ![j] = "e49"]
                /\ UNCHANGED <<result, faulted>>
    /\ WUnchangedConsumer
    /\ UNCHANGED <<handles, user_opened, stdout, original_stdout, total_frames, fi>>

\* The intermediate 2D JSON is removed, and that is printed, if it exists
\* (run_full_pipeline lines 64-66).
Remove2DJson(q, j) ==
    IF "json2d" \in disk[j] THEN PrintTo(q, stdout, j, "L66") ELSE q

\* run_full_pipeline lines 49-80: pose_3d_estimator.process_2d_poses_file
\* raises; or yields no valid pose: the 2D JSON is removed, print, whatever was
\* generated is removed, return None; or writes the 3D JSON and npy: the 2D
\* JSON is removed, print, return (final_json_path, generated_files).
WEstimate3D(j) ==
    /\ wpc[j] = "e49"
    /\ \E outcome \in {"raise", "invalid", "valid"} :
         CASE outcome = "raise" ->
                /\ wpc' = [wpc EXCEPT ![j] = "w154"]
                /\ faulted' = [faulted EXCEPT ![j] = TRUE]
                /\ UNCHANGED <<chan, pushed, foreign, disk, result>>
           [] outcome = "invalid" ->
                /\ SetQ(PrintTo(Remove2DJson(Q0, j), stdout, j, "L69"))
                /\ disk' = [disk EXCEPT ![j] =
                       @ \ {"json2d", "json3d", "npy3d", "video2d"}]
                /\ result' = [result EXCEPT ![j] = "None"]
                /\ wpc' = [wpc EXCEPT ![j] = "w152"]
                /\ UNCHANGED faulted
           [] OTHER ->
                /\ SetQ(PrintTo(Remove2DJson(Q0, j), stdout, j, "L76"))
                /\ disk' = [disk EXCEPT ![j] = (@ \cup {"json3d", "npy3d"}) \ {"json2d"}]
                /\ result' = [result EXCEPT ![j] = "tuple"]
                /\ wpc' = [wpc EXCEPT ![j] = "w152"]
                /\ UNCHANGED faulted
    /\ WUnchangedConsumer
    /\ UNCHANGED <<handles, user_opened, stdout, original_stdout, total_frames, fi>>

\* line 152: result_queue.put({"type": "result", "data": result})
WPutResult(j) ==
    /\ wpc[j] = "w152"
    /\ SetQ(QPut(Q0, j, "result", j, result[j]))
    /\ wpc' = [wpc EXCEPT ![j] = "w157"]
    /\ WUnchangedConsumer
    /\ UNCHANGED <<handles, user_opened, stdout, original_stdout, result, disk, total_frames, fi, faulted>>

\* The error is put and the thread ends there: the put of "done" sits in the
\* try block instead of a finally block.
WPutErrorNoFinally(j) ==
    /\ wpc[j] = "w154"
    /\ SetQ(QPut(Q0, j, "error", j, "traceback"))
    /\ stdout' = original_stdout[j]
    /\ wpc' = [wpc EXCEPT ![j] = "dead"]
    /\ WUnchangedConsumer
    /\ UNCHANGED <<handles, user_opened, original_stdout, result, disk, total_frames, fi, faulted>>

\* lines 153-155: except Exception: result_queue.put({"type": "error", ...}),
\* then the finally block
WPutError(j) ==
    /\ wpc[j] = "w154"
    /\ SetQ(QPut(Q0, j, "error", j, "traceback"))
    /\ wpc' = [wpc EXCEPT ![j] = "w157"]
    /\ WUnchangedConsumer
    /\ UNCHANGED <<handles, user_opened, stdout, original_stdout, result, disk, total_frames, fi, faulted>>

\* line 157: sys.stdout = original_stdout
WRestoreStdout(j) ==
    /\ wpc[j] = "w157"
    /\ stdout' = original_stdout[j]
    /\ wpc' = [wpc EXCEPT ![j] = "w158"]
    /\ WUnchangedConsumer
    /\ UNCHANGED <<handles, user_opened, chan, pushed, foreign, original_stdout, result, disk, total_frames, fi, faulted>>

\* line 158: result_queue.put({"type": "done"}); the thread ends
WPutDone(j) ==
    /\ wpc[j] = "w158"
    /\ SetQ(QPut(Q0, j, "done", j, ""))
    /\ wpc' = [wpc EXCEPT ![j] = "dead"]
    /\ WUnchangedConsumer
    /\ UNCHANGED <<handles, user_opened, stdout, original_stdout, result, disk, total_frames, fi, faulted>>

PoseWorker(j) ==
    \/ WSaveStdout(j) \/ WRedirect(j) \/ WPipelineStart(j) \/ WDetect(j)
    \/ WEstimate3D(j) \/ WPutResult(j) \/ WPutError(j) \/ WRestoreStdout(j)
    \/ WPutDone(j)

\* ----------------------------------- run_video_comparison_in_thread (worker)
\* line 204: result_queue.put("Starting side-by-side comparison..."); line 205:
\* PoseComparison(reference_video_path) opens its ref_cap
VStart(j) ==
    /\ wpc[j] = "v204"
    /\ SetQ(QPut(Q0, j, "log", j, "L204"))
    /\ handles' = [handles EXCEPT ![j] = @ \cup {"ref_cap"}]
    /\ wpc' = [wpc EXCEPT ![j] = "v206"]
    /\ WUnchangedConsumer
    /\ UNCHANGED <<user_opened, stdout, original_stdout, result, disk, total_frames, fi, faulted>>

\* A process_video_files that creates the VideoWriter of output_path before it
\* looks at the sources.
VOpenWriterFirst(j) ==
    /\ wpc[j] = "v206"
    /\ disk' = [disk EXCEPT ![j] = @ \cup {"sbs"}]
    /\ \E opens \in BOOLEAN, n \in 0..MaxFrames :
         /\ user_opened' = [user_opened EXCEPT ![j] = opens]
         /\ IF opens /\ n > 0
              THEN /\ total_frames' = [total_frames EXCEPT ![j] = n]
                   /\ fi' = [fi EXCEPT ![j] = 0]
                   /\ handles' = [handles EXCEPT ![j] = @ \cup {"user_cap", "video_writer"}]
                   /\ wpc' = [wpc EXCEPT ![j] = "f288"]
                   /\ UNCHANGED faulted
              ELSE /\ wpc' = [wpc EXCEPT ![j] = "v225"]
                   /\ faulted' = [faulted EXCEPT ![j] = TRUE]
                   /\ handles' = [handles EXCEPT ![j] =
                                     IF opens THEN @ \cup {"user_cap"} ELSE @]
                   /\ UNCHANGED <<total_frames, fi>>
    /\ WUnchangedConsumer
    /\ UNCHANGED <<chan, pushed, foreign, stdout, original_stdout, result>>

\* process_video_files lines 262-285: the user video does not open, or
\* total_frames = min(ref_frame_count, user_frame_count) is 0 (ValueError, out
\* to the except of run_video_comparison_in_thread); otherwise the VideoWriter
\* of output_path is created and the frame loop starts.
VOpen(j) ==
    /\ wpc[j] = "v206"
    /\ \E opens \in BOOLEAN, n \in 0..MaxFrames :
         /\ user_opened' = [user_opened EXCEPT ![j] = opens]
         /\ IF opens /\ n > 0
              THEN /\ total_frames' = [total_frames EXCEPT ![j] = n]
                   /\ fi' = [fi EXCEPT ![j] = 0]
                   /\ disk' = [disk EXCEPT ![j] = @ \cup {"sbs"}]
                   /\ handles' = [handles EXCEPT ![j] = @ \cup {"user_cap", "video_writer"}]
                   /\ wpc' = [wpc EXCEPT ![j] = "f288"]
                   /\ UNCHANGED faulted
              ELSE /\ wpc' = [wpc EXCEPT ![j] = "v225"]
                   /\ faulted' = [faulted EXCEPT ![j] = TRUE]
                   /\ handles' = [handles EXCEPT ![j] =
                                     IF opens THEN @ \cup {"user_cap"} ELSE @]
                   /\ UNCHANGED <<total_frames, fi, disk>>
    /\ WUnchangedConsumer
    /\ UNCHANGED <<chan, pushed, foreign, stdout, original_stdout, result>>

\* process_video_files lines 288-319, one turn of "for i in range(total_frames)":
\* the loop is over, or a read fails (break); or processing the frame raises:
\* the except of line 317 puts {"type": "error", ...} on the queue and does not
\* re-raise; or the frame is written and, every ProgressEvery frames, a
\* progress item is put.
VFrame(j) ==
    /\ wpc[j] = "f288"
    /\ IF fi[j] >= total_frames[j]
         THEN /\ wpc' = [wpc EXCEPT ![j] = "f326"]
              /\ UNCHANGED <<chan, pushed, foreign, fi, faulted>>
         ELSE \E outcome \in {"exhausted", "raise", "ok"} :
                CASE outcome = "exhausted" ->
                       /\ wpc' = [wpc EXCEPT ![j] = "f326"]
                       /\ UNCHANGED <<chan, pushed, foreign, fi, faulted>>
                  [] outcome = "raise" ->
                       /\ SetQ(QPut(Q0, j, "error", j, "traceback"))
                       /\ wpc' = [wpc EXCEPT ![j] = "f326"]
                       /\ faulted' = [faulted EXCEPT ![j] = TRUE]
                       /\ UNCHANGED fi
                  [] OTHER ->
                       /\ SetQ(IF fi[j] % ProgressEvery = 0
                                 THEN QPut(Q0, j, "progress", j, "processing_frames")
                                 ELSE Q0)
                       /\ fi' = [fi EXCEPT ![j] = @ + 1]
                       /\ UNCHANGED <<wpc, faulted>>
    /\ WUnchangedConsumer
    /\ UNCHANGED <<handles, user_opened, stdout, original_stdout, result, disk, total_frames>>

\* A finally block that reports "completed" before "saving_video".
VFinallyCompletedFirst(j) ==
    /\ wpc[j] = "f326"
    /\ handles' = [handles EXCEPT ![j] = @ \ {"user_cap", "ref_cap", "video_writer"}]
    /\ SetQ(QPut(QPut(Q0, j, "progress", j, "completed"),
                 j, "progress", j, "saving_video"))
    /\ wpc' = [wpc EXCEPT ![j] = "v207"]
    /\ WUnchangedConsumer
    /\ UNCHANGED <<user_opened, stdout, original_stdout, result, disk, total_frames, fi, faulted>>

\* process_video_files lines 321-327: finally: the captures and the writer are
\* released, the progress items "saving_video" and "completed" are put; then
\* the call returns normally.
VFinally(j) ==
    /\ wpc[j] = "f326"
    /\ handles' = [handles EXCEPT ![j] = @ \ {"user_cap", "ref_cap", "video_writer"}]
    /\ SetQ(QPut(QPut(Q0, j, "progress", j, "saving_video"),
                 j, "progress", j, "completed"))
    /\ wpc' = [wpc EXCEPT ![j] = "v207"]
    /\ WUnchangedConsumer
    /\ UNCHANGED <<user_opened, stdout, original_stdout, result, disk, total_frames, fi, faulted>>

\* lines 207-209: two result_queue.put of a log line
VAfterSideBySide(j) ==
    /\ wpc[j] = "v207"
    /\ SetQ(QPut(QPut(Q0, j, "log", j, "L207"), j, "log", j, "L209"))
    /\ wpc' = [wpc EXCEPT ![j] = "v216"]
    /\ WUnchangedConsumer
    /\ UNCHANGED <<handles, user_opened, stdout, original_stdout, result, disk, total_frames, fi, faulted>>

\* lines 215-217, annotate_video lines 334-383: the same two videos are read
\* again, the VideoWriter of the annotated path is created, the frames are
\* annotated (a frame may raise), and the finally block prints on sys.stdout.
\* An exception leaves through that finally to the except of line 224;
\* otherwise a log line is put.
VAnnotate(j) ==
    /\ wpc[j] = "v216"
    /\ disk' = [disk EXCEPT ![j] = @ \cup {"annotated"}]
    /\ handles' = [handles EXCEPT ![j] = @ \cup {"anno_ref_cap"}]
    /\ \E raises \in BOOLEAN :
         /\ wpc' = [wpc EXCEPT ![j] = IF raises THEN "v225" ELSE "v223"]
         /\ faulted' = [faulted EXCEPT ![j] = @ \/ raises]
         /\ SetQ(LET q == PrintTo(Q0, stdout, j, "L383")
                 IN  IF raises THEN q ELSE QPut(q, j, "log", j, "L217"))
    /\ WUnchangedConsumer
    /\ UNCHANGED <<user_opened, stdout, original_stdout, result, total_frames, fi>>

\* line 223: result_queue.put({"type": "result", "data": result_data})
VPutResult(j) ==
    /\ wpc[j] = "v223"
    /\ SetQ(QPut(Q0, j, "result", j, "paths"))
    /\ wpc' = [wpc EXCEPT ![j] = "v228"]
    /\ WUnchangedConsumer
    /\ UNCHANGED <<handles, user_opened, stdout, original_stdout, result, disk, total_frames, fi, faulted>>

\* lines 224-226: except Exception: result_queue.put({"type": "error", ...})
VPutError(j) ==
    /\ wpc[j] = "v225"
    /\ SetQ(QPut(Q0, j, "error", j, "traceback"))
    /\ wpc' = [wpc EXCEPT ![j] = "v228"]
    /\ WUnchangedConsumer
    /\ UNCHANGED <<handles, user_opened, stdout, original_stdout, result, disk, total_frames, fi, faulted>>

\* lines 227-228: finally: result_queue.put({"type": "done"}); the thread ends
VPutDone(j) ==
    /\ wpc[j] = "v228"
    /\ SetQ(QPut(Q0, j, "done", j, ""))
    /\ wpc' = [wpc EXCEPT ![j] = "dead"]
    /\ WUnchangedConsumer
    /\ UNCHANGED <<handles, user_opened, stdout, original_stdout, result, disk, total_frames, fi, faulted>>

CompareWorker(j) ==
    \/ VStart(j) \/ VOpen(j) \/ VFrame(j) \/ VFinally(j) \/ VAfterSideBySide(j)
    \/ VAnnotate(j) \/ VPutResult(j) \/ VPutError(j) \/ VPutDone(j)

\* ------------------------------------------------- event_generator (consumer)
\* The event the loop body yields for a message taken from the queue (lines
\* 178-192 and 256-266): a str is a log line; a dict is matched on "type"
\* against "done", "result" and "error", and a dict of any other type falls
\* through the if/elif chain and yields nothing.
EventOf(msg) ==
    CASE msg.type = "log" -> "log"
      [] msg.type = "done" -> "done"
      [] msg.type = "result" -> "result"
      [] msg.type = "error" -> "error"
      [] OTHER -> "none"

\* A loop that goes on after an error event.
BreaksAfterDone(ev) == ev = "done"

\* Whether the loop breaks after yielding the event (lines 181, 190, 259, 264).
BreaksAfter(ev) == ev \in {"done", "error"}

\* generated_files as run_full_pipeline returns it (run_pipeline.py line 79)
GeneratedFiles == {"json3d", "npy3d", "video2d"}

CUnchangedWorker ==
    UNCHANGED <<handles, user_opened, kind, wpc, stdout, original_stdout, result, total_frames, fi, faulted,
                livevars, fnvars>>

\* lines 177-192 / 255-266: one get_nowait() and the handling of what it gave,
\* up to the yield (where the generator is suspended) or back to the loop head.
CGet(j) ==
    /\ j \in Observed
    /\ cpc[j] = "get"
    /\ IF chan[j] = <<>>
         THEN \* queue.Empty: on to the is_alive() check
              /\ cpc' = [cpc EXCEPT ![j] = "alive"]
              /\ UNCHANGED <<chan, relayed, files_to_cleanup, after, raised>>
         ELSE LET g == GetNowait(chan[j])
                  ev == EventOf(g.msg)
                  unpacks == g.msg.data = "tuple"
                  opens == "json3d" \in disk[j]
              IN  /\ chan' = [chan EXCEPT ![j] = g.rest]
                  /\ IF ev = "result" /\ kind[j] = "pose" /\ ~(unpacks /\ opens)
                       THEN \* line 183 or 185 raises: out through the finally
                            /\ raised' = [raised EXCEPT ![j] = TRUE]
                            /\ files_to_cleanup' = [files_to_cleanup EXCEPT ![j] =
                                  IF unpacks THEN @ \cup GeneratedFiles ELSE @]
                            /\ cpc' = [cpc EXCEPT ![j] = "join"]
                            /\ UNCHANGED <<relayed, after>>
                       ELSE /\ files_to_cleanup' = [files_to_cleanup EXCEPT ![j] =
                                  IF ev = "result" /\ kind[j] = "pose"
                                    THEN @ \cup GeneratedFiles ELSE @]
                            /\ IF ev = "none"
                                 THEN UNCHANGED <<relayed, cpc, after>>
                                 ELSE /\ relayed' = [relayed EXCEPT ![j] =
                                            IF g.msg.by = j
                                              THEN Append(@, [ev |-> ev, seq |-> g.msg.seq])
                                              ELSE @]
                                      /\ cpc' = [cpc EXCEPT ![j] = "yield"]
                                      /\ after' = [after EXCEPT ![j] =
                                            IF BreaksAfter(ev) THEN "join" ELSE "get"]
                            /\ UNCHANGED raised
    /\ CUnchangedWorker
    /\ UNCHANGED <<pushed, foreign, disk, disconnected>>

\* lines 194-196 / 268-270: except queue.Empty: break if the worker is not
\* alive, else await asyncio.sleep(0.1)
CAlive(j) ==
    /\ cpc[j] = "alive"
    /\ cpc' = [cpc EXCEPT ![j] = IF IsAlive(j) THEN "sleep" ELSE "join"]
    /\ CUnchangedWorker
    /\ UNCHANGED <<chan, pushed, foreign, relayed, disk, files_to_cleanup, after,
                   disconnected, raised>>

\* asyncio.sleep(0.1) returns: back to the loop head
CWake(j) ==
    /\ cpc[j] = "sleep"
    /\ cpc' = [cpc EXCEPT ![j] = "get"]
    /\ CUnchangedWorker
    /\ UNCHANGED <<chan, pushed, foreign, relayed, disk, files_to_cleanup, after,
                   disconnected, raised>>

\* the generator is resumed after a yield: break, or back to the loop head
CResume(j) ==
    /\ cpc[j] = "yield"
    /\ cpc' = [cpc EXCEPT ![j] = after[j]]
    /\ CUnchangedWorker
    /\ UNCHANGED <<chan, pushed, foreign, relayed, disk, files_to_cleanup, after,
                   disconnected, raised>>

\* The client disconnects while the generator is suspended (at a yield or in
\* the sleep): the generator is closed there and leaves through its finally.
Disconnect(j) ==
    /\ cpc[j] \in {"yield", "sleep"}
    /\ disconnected' = [disconnected EXCEPT ![j] = TRUE]
    /\ cpc' = [cpc EXCEPT ![j] = "join"]
    /\ CUnchangedWorker
    /\ UNCHANGED <<chan, pushed, foreign, relayed, disk, files_to_cleanup, after, raised>>

\* A join that does not wait.
JoinReturnsAtOnce(j) == TRUE

\* A join that waits for ever.
JoinNeverReturns(j) == FALSE

\* Thread.join() returns once the thread has ended.
JoinReturns(j) == ~IsAlive(j)

\* line 198 / 272: finally: pipeline_thread.join()
CJoin(j) ==
    /\ cpc[j] = "join"
    /\ JoinReturns(j)
    /\ cpc' = [cpc EXCEPT ![j] = "cleanup"]
    /\ CUnchangedWorker
    /\ UNCHANGED <<chan, pushed, foreign, relayed, disk, files_to_cleanup, after,
                   disconnected, raised>>

\* cleanup_files(files): one print, then every listed file that exists is
\* removed and that is printed too; all on the current sys.stdout.
CleanupFiles(q, out, j, files) ==
    [q    |-> PrintN(PrintTo(q, out, Transport, "L70"), out, Transport, "L75",
                     Cardinality(files \cap disk[j])),
     disk |-> [disk EXCEPT ![j] = @ \ files]]

\* line 199 / 273: cleanup_files(files_to_cleanup); the generator is finished
CCleanup(j) ==
    /\ cpc[j] = "cleanup"
    /\ LET c == CleanupFiles(Q0, stdout, j, files_to_cleanup[j])
       IN  SetQ(c.q) /\ disk' = c.disk
    /\ cpc' = [cpc EXCEPT ![j] = "finished"]
    /\ CUnchangedWorker
    /\ UNCHANGED <<relayed, files_to_cleanup, after, disconnected, raised>>

\* The loop of the generator of a job that is not observed: it ends at some
\* moment, by any of its exits, and the finally block follows.
CLeaveLoop(j) ==
    /\ j \notin Observed
    /\ cpc[j] = "get"
    /\ cpc' = [cpc EXCEPT ![j] = "join"]
    /\ CUnchangedWorker
    /\ UNCHANGED <<chan, pushed, foreign, relayed, disk, files_to_cleanup, after,
                   disconnected, raised>>

Consumer(j) ==
    \/ CLeaveLoop(j)
    \/ CStart(j) \/ CGet(j) \/ CAlive(j) \/ CWake(j) \/ CResume(j)
    \/ Disconnect(j) \/ CJoin(j) \/ CCleanup(j)

Next ==
    \E j \in Jobs :
        \/ \E k \in KindsOf(j) : Request(j, k)
        \/ Consumer(j)
        \/ PoseWorker(j)
        \/ CompareWorker(j)

Spec == Init /\ [][Next]_vars

\* ===================================================== properties of the streaming jobs
CountType(seq, t) == Cardinality({i \in DOMAIN seq : seq[i].type = t})
CountEv(seq, e) == Cardinality({i \in DOMAIN seq : seq[i].ev = e})

\* The generator has left its loop.
StreamEnded(j) == cpc[j] \in {"join", "cleanup", "finished"}

\* Item i of the worker's history has been taken from the queue.
Taken(j, i) ==
    /\ i \in DOMAIN pushed[j]
    /\ \A m \in DOMAIN chan[j] : ~(chan[j][m].by = j /\ chan[j][m].seq = i)

\* C1: the worker of a job puts Done on the job's queue at most once, nothing
\* after it, and exactly once by the time the thread has ended, whether the
\* work succeeded or raised.
C1_DoneOnceAndLast ==
    \A j \in Observed :
        /\ CountType(pushed[j], "done") <= 1
        /\ \A i \in DOMAIN pushed[j] :
               pushed[j][i].type = "done" => i = Len(pushed[j])
        /\ wpc[j] = "dead" => CountType(pushed[j], "done") = 1

\* A worker whose work raised has ended, Done being the last of several items.
C1_Witness ==
    \E j \in Observed :
        /\ wpc[j] = "dead" /\ faulted[j]
        /\ Len(pushed[j]) >= 2
        /\ pushed[j][Len(pushed[j])].type = "done"

\* C2: when the generator has left its loop with the client still connected,
\* what it relayed ends with a 'done' event, the only one.
C2_RelayEndsWithDone ==
    \A j \in Observed :
        (StreamEnded(j) /\ ~disconnected[j]) =>
            /\ relayed[j] # <<>>
            /\ relayed[j][Len(relayed[j])].ev = "done"
            /\ CountEv(relayed[j], "done") = 1

\* C3: the worker puts at most one of Result and Error, none of them after
\* Done, and by the time it has ended exactly one Error and no Result if the
\* work raised at any stage, exactly one Result and no Error if it did not.
C3_OneResultOrOneError ==
    \A j \in Observed :
        /\ CountType(pushed[j], "result") + CountType(pushed[j], "error") <= 1
        /\ \A i \in DOMAIN pushed[j] :
               pushed[j][i].type \in {"result", "error"} =>
                   \A k \in 1..(i - 1) : pushed[j][k].type # "done"
        /\ wpc[j] = "dead" =>
               IF faulted[j]
                 THEN /\ CountType(pushed[j], "error") = 1
                      /\ CountType(pushed[j], "result") = 0
                 ELSE /\ CountType(pushed[j], "result") = 1
                      /\ CountType(pushed[j], "error") = 0

\* C4: when the generator has left its loop with the client still connected, no
\* Error relayed and no exception of its own, no item of the worker is still
\* unread in the queue.  (Stated for the jobs whose work did not raise: there
\* the worker pushes no Error at all.)
C4_NoEventLost ==
    \A j \in Observed :
        (/\ StreamEnded(j)
         /\ ~disconnected[j]
         /\ ~raised[j]
         /\ ~faulted[j]
         /\ CountEv(relayed[j], "error") = 0) =>
            \A m \in DOMAIN chan[j] : chan[j][m].by # j

C6_ProgressRelayed ==
    \A j \in Observed :
        \A i \in DOMAIN pushed[j] :
            (pushed[j][i].type = "progress" /\ Taken(j, i)) =>
                \E k \in DOMAIN relayed[j] :
                    relayed[j][k].seq = i /\ relayed[j][k].ev = "progress"

\* C7: once the generator is at cleanup_files, or past it, the worker thread
\* of the job has ended.
C7_CleanupAfterJoin ==
    \A j \in Jobs : cpc[j] \in {"cleanup", "finished"} => ~IsAlive(j)

\* cleanup_files has run for a job whose client disconnected.
C7_Witness ==
    \E j \in Observed : cpc[j] = "finished" /\ disconnected[j]

\* C8: when cleanup_files is about to run, every file of the job that is on
\* disk (uploaded or generated) is in the list it is given.
C8_CleanupCoversJobFiles ==
    \A j \in Observed : cpc[j] = "cleanup" => disk[j] \subseteq files_to_cleanup[j]

\* C9: no thread other than a job's own worker puts an item on the job's queue.
C9_SoleWriter ==
    \A j \in Jobs : foreign[j] = {}

\* C18: a comparison job whose user video opens and min(ref_frame_count,
\* user_frame_count) is 0 has neither the side-by-side nor the annotated video
\* on disk and pushes no Result; when its worker has ended the last two items
\* it pushed are an Error, the only one, and Done.
C18_ZeroFramesFailsFast ==
    \A j \in Observed :
        (/\ kind[j] = "compare"
         /\ user_opened[j]
         /\ total_frames[j] = 0
         /\ wpc[j] \in {"v225", "v228", "dead"}) =>
            /\ disk[j] \cap {"sbs", "annotated"} = {}
            /\ CountType(pushed[j], "result") = 0
            /\ wpc[j] = "dead" =>
                   /\ Len(pushed[j]) >= 2
                   /\ pushed[j][Len(pushed[j]) - 1].type = "error"
                   /\ pushed[j][Len(pushed[j])].type = "done"
                   /\ CountType(pushed[j], "error") = 1

\* The worker of a comparison job on a video of 0 frames has ended.
C18_Witness ==
    \E j \in Observed :
        /\ kind[j] = "compare" /\ user_opened[j] /\ total_frames[j] = 0
        /\ wpc[j] = "dead"
        /\ CountType(pushed[j], "error") = 1

\* C19: when the worker of a job has ended, none of the captures and writers
\* the job opened is still open.
C19_HandlesReleased ==
    \A j \in Jobs : wpc[j] = "dead" => handles[j] = {}

\* C26: in a comparison job that has pushed its Result, "saving_video" and
\* right after it "completed" were pushed before the Result and after every
\* "processing_frames" item.
C26_MilestonesBeforeResult ==
    \A j \in Observed :
        \A r \in DOMAIN pushed[j] :
            (kind[j] = "compare" /\ pushed[j][r].type = "result") =>
                \E m \in 1..(r - 2) :
                    /\ pushed[j][m].type = "progress"
                    /\ pushed[j][m].data = "saving_video"
                    /\ pushed[j][m + 1].type = "progress"
                    /\ pushed[j][m + 1].data = "completed"
                    /\ \A k \in DOMAIN pushed[j] :
                           (pushed[j][k].type = "progress"
                              /\ pushed[j][k].data = "processing_frames") => k < m

\* A comparison job that reported on a frame has pushed its Result.
C26_Witness ==
    \E j \in Observed :
        /\ kind[j] = "compare"
        /\ CountType(pushed[j], "result") = 1
        /\ \E k \in DOMAIN pushed[j] :
               pushed[j][k].type = "progress" /\ pushed[j][k].data = "processing_frames"

\* C27: the worker of a single-pose job sets sys.stdout to the sink it saved
\* before it puts Done, and once it has put Done nothing more is put on the
\* job's queue through its QueueIO.
C27_NothingAfterDone ==
    [][\A j \in Observed :
          kind[j] = "pose" =>
             /\ (wpc[j] = "w157" /\ wpc'[j] = "w158") => stdout' = original_stdout[j]
             /\ wpc[j] = "dead" => Len(chan'[j]) <= Len(chan[j])]_vars

\* C28: of Result and Error together the generator relays at most one event.
C28_RelaysOneOutcome ==
    \A j \in Observed :
        CountEv(relayed[j], "result") + CountEv(relayed[j], "error") <= 1

\* An Error was relayed for a job whose worker pushed a Result as well.
C28_Witness ==
    \E j \in Observed :
        /\ CountEv(relayed[j], "error") = 1
        /\ CountType(pushed[j], "result") = 1

\* C32: every Result item the worker of a single-pose job puts carries the
\* pair (final_json_path, generated_files), also when no pose was detected or
\* no valid 3D pose came out, and the generator's loop body does not raise.
C32_ResultCarriesPayload ==
    \A j \in Observed :
        kind[j] = "pose" =>
            /\ \A i \in DOMAIN pushed[j] :
                   pushed[j][i].type = "result" => pushed[j][i].data = "tuple"
            /\ ~raised[j]

\* C33: when no worker thread is running, sys.stdout is the sink that was
\* in place before the first job started, and not the QueueIO of a job.
C33_StdoutRestored ==
    (\A j \in Jobs : ~IsAlive(j)) => stdout = RealStdout

\* C34: among the items a worker has put on its queue, no "error" item comes
\* before a "completed" progress item: process_video_files reports
\* "completed" only when no frame of its loop raised.
C34_CompletedOnlyWithoutError ==
    \A j \in Observed :
        \A a, b \in DOMAIN pushed[j] :
            (a < b /\ pushed[j][a].type = "error") =>
                ~(pushed[j][b].type = "progress" /\ pushed[j][b].data = "completed")

\* ------------------------------------------------- the generator terminates
\* The steps of the generator of a job, its loop followed turn by turn.
ConsumerSteps(j) ==
    \/ CStart(j) \/ CGet(j) \/ CAlive(j) \/ CWake(j) \/ CResume(j)
    \/ Disconnect(j) \/ CJoin(j) \/ CCleanup(j)

\* An observed job runs alone, except that other requests arrive (and
\* save_upload_file prints for them) while it runs; their generators have
\* not been started.
NextFair ==
    \/ \E j \in Jobs : \E k \in KindsOf(j) : Request(j, k)
    \/ \E j \in Observed : ConsumerSteps(j) \/ PoseWorker(j) \/ CompareWorker(j)

\* The event loop runs a generator that can take a step, and the client of a
\* stream either takes the event it is offered or goes away: a step of the
\* generator that stays possible is taken.  Nothing is assumed of the worker
\* threads.
SpecFair ==
    Init /\ [][NextFair]_vars /\ \A j \in Observed : WF_vars(ConsumerSteps(j))

\* C31: once the worker thread of a job has ended, the generator of the job
\* leaves its loop, joins the thread and runs cleanup_files to its end: it
\* does not go on polling an empty queue, whether or not it has taken "done".
C31_ConsumerTerminates ==
    \A j \in Observed : (wpc[j] = "dead") ~> (cpc[j] = "finished")

\* The generator found the queue empty and the thread dead, and went through
\* join and cleanup with the "done" item still on the queue.
C31_Witness ==
    \E j \in Observed :
        /\ cpc[j] = "finished"
        /\ wpc[j] = "dead"
        /\ ~disconnected[j] /\ ~raised[j]
        /\ CountEv(relayed[j], "done") = 0
        /\ CountEv(relayed[j], "error") = 0

\* ===================================================== LiveComparisonSession
\* cv2.VideoWriter(path, fourcc, fps, size): the file at the path is created,
\* or, if it exists, replaced by an empty one.
OpenWriter(size) ==
    [writer |-> [opened |-> TRUE, size |-> size], file |-> <<>>]

\* VideoWriter.write(frame): a frame is appended to the file if the writer is
\* open and the frame has the writer's size.
WriteFrame(w, file, size, id) ==
    IF w.opened /\ w.size = size THEN Append(file, id) ELSE file

\* process_frame lines 526-532: when the frame's size differs from (self.height,
\* self.width), the size is updated, the writer released and a new VideoWriter
\* created on the same output_path.
SinkFor(size) ==
    IF frame_size # size
      THEN [size |-> size, writer |-> OpenWriter(size).writer, file |-> OpenWriter(size).file]
      ELSE [size |-> frame_size, writer |-> video_writer, file |-> recording]

\* ref_cap.read() followed by nothing: no rewind when it gives no frame.
ReadReferenceNoRewind ==
    IF ref_opened /\ ref_pos < ref_frames
      THEN [ok |-> TRUE, frame |-> ref_pos, pos |-> ref_pos + 1]
      ELSE [ok |-> FALSE, frame |-> 0, pos |-> ref_pos]

\* process_frame lines 535-541: ref_cap.read(); when it gives no frame,
\* ref_cap.set(CAP_PROP_POS_FRAMES, 0) and read() again.  ok: a frame was
\* read; frame: its index; pos: the position afterwards.
ReadReference ==
    IF ref_opened /\ ref_pos < ref_frames
      THEN [ok |-> TRUE, frame |-> ref_pos, pos |-> ref_pos + 1]
      ELSE IF ref_opened /\ ref_frames > 0
             THEN [ok |-> TRUE, frame |-> 0, pos |-> 1]
             ELSE [ok |-> FALSE, frame |-> 0, pos |-> IF ref_opened THEN 0 ELSE ref_pos]

\* self.output_path, set once by _initialize_recording
OutputPath == "live_session.mp4"

\* The release() calls counted: n more on the writer, m more on ref_cap.
Released(n, m) ==
    [writer |-> releases.writer + n, ref |-> releases.ref + m]

\* An undecodable call that reads the reference frame before it decodes.
UndecodableAfterRead ==
    /\ ncalls < MaxCalls
    /\ ncalls' = ncalls + 1
    /\ last_return' = "invalid_frame"
    /\ returns' = Append(returns, "invalid_frame")
    /\ after_close' = (after_close \/ ncloses > 0)
    /\ ref_pos' = ReadReference.pos
    /\ UNCHANGED <<is_recording, video_writer, frame_size, ref_opened,
                   ref_frames, recording, succeeded, ncloses, compared, releases,
                   close_returns>>

\* An undecodable call that ends the recording.
UndecodableStopsRecording ==
    /\ ncalls < MaxCalls
    /\ ncalls' = ncalls + 1
    /\ last_return' = "invalid_frame"
    /\ returns' = Append(returns, "invalid_frame")
    /\ after_close' = (after_close \/ ncloses > 0)
    /\ is_recording' = FALSE
    /\ UNCHANGED <<video_writer, frame_size, ref_opened, ref_pos,
                   ref_frames, recording, succeeded, ncloses, compared, releases,
                   close_returns>>

\* process_frame with bytes that do not decode (lines 520-524): imdecode gives
\* None and the error payload is returned before anything else is touched.
Undecodable ==
    /\ ncalls < MaxCalls
    /\ ncalls' = ncalls + 1
    /\ last_return' = "invalid_frame"
    /\ returns' = Append(returns, "invalid_frame")
    /\ after_close' = (after_close \/ ncloses > 0)
    /\ UNCHANGED <<is_recording, video_writer, frame_size, ref_opened, ref_pos,
                   ref_frames, recording, succeeded, ncloses, compared, releases,
                   close_returns>>

\* process_frame with bytes that decode to a frame of the given size (lines
\* 526-561).  raises: _extract_keypoints or _calculate_score (lines 544-546)
\* raises, after the sink and the reference have been dealt with and before
\* the frame is written.
Decodable(size, raises) ==
    /\ ncalls < MaxCalls
    /\ ncalls' = ncalls + 1
    /\ after_close' = (after_close \/ ncloses > 0)
    /\ LET id == ncalls + 1
           sink == SinkFor(size)
           ref == ReadReference
       IN  /\ frame_size' = sink.size
           /\ video_writer' = sink.writer
           /\ releases' = Released(IF frame_size # size THEN 1 ELSE 0, 0)
           /\ ref_pos' = ref.pos
           /\ compared' = IF ref.ok THEN Append(compared, ref.frame) ELSE compared
           /\ CASE ~ref.ok ->
                     /\ recording' = sink.file
                     /\ last_return' = "reference_error"
                     /\ returns' = Append(returns, "reference_error")
                     /\ UNCHANGED succeeded
                [] ref.ok /\ raises ->
                     /\ recording' = sink.file
                     /\ last_return' = "raised"
                     /\ returns' = Append(returns, "raised")
                     /\ UNCHANGED succeeded
                [] OTHER ->
                     /\ recording' = IF is_recording
                                       THEN WriteFrame(sink.writer, sink.file, size, id)
                                       ELSE sink.file
                     /\ succeeded' = Append(succeeded, id)
                     /\ last_return' = "result"
                     /\ returns' = Append(returns, "result")
    /\ UNCHANGED <<is_recording, ref_opened, ref_frames, ncloses, close_returns>>

\* A close() that releases the writer and ref_cap whatever their state.
ReleaseUnguarded ==
    /\ ncloses < MaxCloses
    /\ ncloses' = ncloses + 1
    /\ video_writer' = [video_writer EXCEPT !.opened = FALSE]
    /\ is_recording' = FALSE
    /\ ref_opened' = FALSE
    /\ releases' = Released(1, 1)
    /\ close_returns' = Append(close_returns, OutputPath)
    /\ UNCHANGED <<frame_size, ref_pos, ref_frames, recording, ncalls, succeeded,
                   last_return, after_close, returns, compared>>

\* close() (lines 563-573): the writer is released if is_recording, ref_cap if
\* it is opened, and self.output_path is returned.
Release ==
    /\ ncloses < MaxCloses
    /\ ncloses' = ncloses + 1
    /\ video_writer' = IF is_recording THEN [video_writer EXCEPT !.opened = FALSE]
                       ELSE video_writer
    /\ is_recording' = FALSE
    /\ ref_opened' = FALSE
    /\ releases' = Released(IF is_recording THEN 1 ELSE 0, IF ref_opened THEN 1 ELSE 0)
    /\ close_returns' = Append(close_returns, OutputPath)
    /\ UNCHANGED <<frame_size, ref_pos, ref_frames, recording, ncalls, succeeded,
                   last_return, after_close, returns, compared>>

\* ------------------------------ the session driven by any sequence of calls
\* process_frame called with bytes that do not decode (lines 521-524)
ProcessInvalidFrame ==
    /\ Undecodable
    /\ UNCHANGED <<jobvars, fnvars, wsvars>>

\* process_frame called with bytes that decode to a frame of the given size
\* (lines 526-561)
ProcessFrame(size) ==
    /\ \E raises \in BOOLEAN : Decodable(size, raises)
    /\ UNCHANGED <<jobvars, fnvars, wsvars>>

\* close() (lines 563-573)
Close ==
    /\ Release
    /\ UNCHANGED <<jobvars, fnvars, wsvars>>

InitLive ==
    /\ InitJobs
    /\ NoHandler
    /\ NoScore
    /\ Idle
    /\ \E opens \in BOOLEAN, n \in 0..MaxRefFrames :
           (opens \/ n = 0) /\ NewSession(opens, n)

NextLive ==
    \/ ProcessInvalidFrame
    \/ \E size \in Sizes : ProcessFrame(size)
    \/ Close

SpecLive == InitLive /\ [][NextLive]_vars

\* C10: after process_frame calls followed by close(), the file at output_path
\* holds exactly the frames of the calls that returned a comparison result, one
\* each, in call order.
C10_OneFramePerResult ==
    (ncloses > 0 /\ ~after_close) => recording = succeeded

\* C11: a process_frame call that returns the invalid-frame error leaves the
\* session as it was: nothing is written to the recording, the writer is
\* neither released nor re-opened, and the reference cursor does not move.
C11_InvalidFrameLeavesSession ==
    [][(Len(returns') = Len(returns) + 1
          /\ returns'[Len(returns')] = "invalid_frame")
       => /\ UNCHANGED <<recording, video_writer, frame_size, is_recording>>
          /\ UNCHANGED <<ref_pos, ref_opened, releases, compared, succeeded>>]_vars

\* An undecodable call came after a frame was recorded and the reference
\* cursor had moved, on an open session.
C11_Witness ==
    /\ ncloses = 0
    /\ last_return = "invalid_frame"
    /\ recording # <<>>
    /\ ref_pos > 0

\* C12: on an open session whose reference has R >= 1 frames no call has
\* returned the reference-read error, and the k-th decodable call (from 0)
\* read reference frame k mod R.
C12_ReferenceLoops ==
    (ncloses = 0 /\ ref_opened /\ ref_frames >= 1) =>
        /\ \A i \in DOMAIN returns : returns[i] # "reference_error"
        /\ \A k \in DOMAIN compared : compared[k] = (k - 1) % ref_frames

\* The reference has been read past its end: more decodable calls than the
\* reference has frames, the last one on frame 0 again or later.
C12_Witness ==
    /\ ncloses = 0 /\ ref_opened /\ ref_frames >= 1
    /\ Len(compared) > ref_frames
    /\ last_return = "result"

\* C13: a close() after the first one releases nothing and returns what the
\* first one returned.
C13_SecondCloseIsNoOp ==
    [][(ncloses >= 1 /\ ncloses' = ncloses + 1)
       => /\ releases' = releases
          /\ close_returns'[Len(close_returns')] = close_returns[1]]_vars

\* close() has been called twice on a session that had recorded a frame.
C13_Witness ==
    /\ ncloses = 2
    /\ Len(close_returns) = 2
    /\ recording # <<>>
    /\ releases.writer >= 1 /\ releases.ref = 1

\* C16: once close() has returned, no call opens or releases the writer,
\* changes the file at output_path, or re-opens the reference.
C16_ClosedIsTerminal ==
    [][ncloses >= 1
       => /\ video_writer' = video_writer
          /\ recording' = recording
          /\ releases' = releases
          /\ ref_opened' = ref_opened]_vars

\* ================================================= websocket_compare_live
\* lines 286-293: the connection is accepted; when the reference video is not
\* a file an error is sent, the socket closed and the handler returns.
WsAccept ==
    /\ hpc = "accept"
    /\ hpc' = IF ref_isfile THEN "construct" ELSE "returned"
    /\ UNCHANGED <<session, ref_isfile, exit_by, ws_events, ws_handles>>
    /\ UNCHANGED <<sessionvars, jobvars, fnvars>>
    /\ UNCHANGED annotated

\* line 297: session = LiveComparisonSession(ref_video_path, OUTPUTS_DIR).  The
\* constructor opens ref_cap and creates the VideoWriter of output_path; if it
\* raises, `session` stays None.
WsConstruct ==
    /\ hpc = "construct"
    /\ \E raises \in BOOLEAN, opens \in BOOLEAN :
         IF raises
           THEN /\ hpc' = "finally"
                /\ exit_by' = "construct_fault"
                /\ UNCHANGED <<session, is_recording, video_writer, ref_opened>>
           ELSE /\ (opens \/ ref_frames = 0)
                /\ hpc' = "started"
                /\ session' = TRUE
                /\ ref_opened' = opens
                /\ video_writer' = OpenWriter(ProvisionalSize).writer
                /\ is_recording' = TRUE
                /\ UNCHANGED exit_by
    /\ UNCHANGED <<frame_size, ref_pos, ref_frames, recording, ncalls, succeeded,
                   last_return, ncloses, after_close, returns, compared, releases,
                   close_returns>>
    /\ UNCHANGED <<ref_isfile, ws_events, ws_handles, jobvars, fnvars>>
    /\ UNCHANGED annotated

\* lines 298 and 304: await websocket.send_json(...), which raises when the
\* client is gone; after it the loop receives again.
WsSend ==
    /\ hpc \in {"started", "send"}
    /\ \E raises \in BOOLEAN :
         /\ hpc' = IF raises THEN "finally" ELSE "receive"
         /\ exit_by' = IF raises THEN "send_fault" ELSE exit_by
    /\ UNCHANGED <<session, ref_isfile, ws_events, ws_handles>>
    /\ UNCHANGED <<sessionvars, jobvars, fnvars>>
    /\ UNCHANGED annotated

\* line 302: receive_bytes raises WebSocketDisconnect
WsDisconnect ==
    /\ hpc = "receive"
    /\ hpc' = "finally"
    /\ exit_by' = "disconnect"
    /\ UNCHANGED <<session, ref_isfile, ws_events, ws_handles>>
    /\ UNCHANGED <<sessionvars, jobvars, fnvars>>
    /\ UNCHANGED annotated

\* lines 302-303: bytes are received that do not decode; process_frame returns
\* the error payload, which line 304 is about to send
WsInvalidFrame ==
    /\ hpc = "receive"
    /\ Undecodable
    /\ hpc' = "send"
    /\ UNCHANGED <<session, ref_isfile, exit_by, ws_events, ws_handles, jobvars, fnvars>>
    /\ UNCHANGED annotated

\* lines 302-303: a frame is received and process_frame returns a payload, or
\* raises (out to the except of line 308)
WsFrame(size) ==
    /\ hpc = "receive"
    /\ \E raises \in BOOLEAN :
         /\ Decodable(size, raises)
         /\ hpc' = IF last_return' = "raised" THEN "finally" ELSE "send"
         /\ exit_by' = IF last_return' = "raised" THEN "process_fault" ELSE exit_by
    /\ UNCHANGED <<session, ref_isfile, ws_events, ws_handles, jobvars, fnvars>>
    /\ UNCHANGED annotated

\* A finally block that closes the session after a disconnect only.
WsFinallyOnDisconnect ==
    /\ hpc = "finally"
    /\ IF session /\ exit_by = "disconnect"
         THEN /\ Release
              /\ ws_events' = Append(ws_events, "close")
              /\ hpc' = "annotate"
         ELSE /\ hpc' = "returned"
              /\ UNCHANGED <<ws_events, sessionvars>>
    /\ UNCHANGED <<session, ref_isfile, exit_by, ws_handles, jobvars, fnvars>>
    /\ UNCHANGED annotated

\* lines 311-315: finally: if session: raw_video_path = session.close()
WsFinally ==
    /\ hpc = "finally"
    /\ IF session
         THEN /\ Release
              /\ ws_events' = Append(ws_events, "close")
              /\ hpc' = "annotate"
         ELSE /\ hpc' = "returned"
              /\ UNCHANGED <<ws_events, sessionvars>>
    /\ UNCHANGED <<session, ref_isfile, exit_by, ws_handles, jobvars, fnvars>>
    /\ UNCHANGED annotated

\* lines 320-324 with annotate_video lines 334-356: a new PoseComparison opens
\* the reference again; the raw recording is opened; if it does not open, or
\* min(ref_frame_count, user_frame_count) is 0 (user_cap released first), the
\* ValueError goes to the except of line 330; otherwise the writer of the
\* annotated video is created and the frame loop starts.
WsAnnotateStart ==
    /\ hpc = "annotate"
    /\ \E opens \in BOOLEAN :
         /\ (opens \/ recording = <<>>)
         /\ IF opens /\ recording # <<>> /\ ref_frames > 0
              THEN /\ ws_handles' = {"anno_ref_cap", "anno_user_cap", "anno_writer"}
                   /\ ws_events' = Append(ws_events, "annotate_begin")
                   /\ hpc' = "annotating"
              ELSE /\ ws_handles' = {"anno_ref_cap"}
                   /\ hpc' = "returned"
                   /\ UNCHANGED ws_events
    /\ UNCHANGED <<session, ref_isfile, exit_by>>
    /\ UNCHANGED <<sessionvars, jobvars, fnvars>>
    /\ UNCHANGED annotated

\* annotate_video lines 339-341: total_frames = min(ref_frame_count,
\* user_frame_count), of the reference and of the raw recording.
AnnotateTotalFrames ==
    IF ref_frames < Len(recording) THEN ref_frames ELSE Len(recording)

\* annotate_video lines 355-379, the first n turns of the loop: the reference
\* is rewound once, then turn i reads the next frame of each video and writes
\* the annotated frame.
AnnotatedFrames(n) ==
    [k \in 1..n |-> [frame |-> recording[k], ref |-> k - 1]]

\* annotate_video lines 358-383: the frame loop and its finally block, which
\* releases user_cap and the writer (never self.ref_cap); a frame that raises
\* leaves through the finally to the except of line 330, the frames before it
\* written.
WsAnnotateEnd ==
    /\ hpc = "annotating"
    /\ ws_handles' = ws_handles \ {"anno_user_cap", "anno_writer"}
    /\ \E raises \in BOOLEAN :
         /\ hpc' = IF raises THEN "returned" ELSE "remove"
         /\ ws_events' = IF raises THEN ws_events ELSE Append(ws_events, "annotate_end")
         /\ \E n \in 0..AnnotateTotalFrames :
                /\ n = AnnotateTotalFrames <=> ~raises
                /\ annotated' = AnnotatedFrames(n)
    /\ UNCHANGED <<session, ref_isfile, exit_by>>
    /\ UNCHANGED <<sessionvars, jobvars, fnvars>>

\* An os.remove of the raw recording that does not wait for annotate_video.
WsRemoveEarly ==
    /\ hpc \in {"annotating", "remove"}
    /\ ws_events' = Append(ws_events, "remove")
    /\ hpc' = IF hpc = "remove" THEN "returned" ELSE hpc
    /\ Len(ws_events) < 4
    /\ UNCHANGED <<session, ref_isfile, exit_by, ws_handles>>
    /\ UNCHANGED <<sessionvars, jobvars, fnvars>>
    /\ UNCHANGED annotated

\* lines 326-328: os.remove(raw_video_path)
WsRemove ==
    /\ hpc = "remove"
    /\ ws_events' = Append(ws_events, "remove")
    /\ hpc' = "returned"
    /\ UNCHANGED <<session, ref_isfile, exit_by, ws_handles>>
    /\ UNCHANGED <<sessionvars, jobvars, fnvars>>
    /\ UNCHANGED annotated

\* The handler called on a reference that is a file or not, of any length; no
\* session exists yet.
InitWs ==
    /\ InitJobs
    /\ NoScore
    /\ Idle
    /\ hpc = "accept"
    /\ session = FALSE
    /\ ref_isfile \in BOOLEAN
    /\ exit_by = "none"
    /\ ws_events = <<>>
    /\ ws_handles = {}
    /\ annotated = <<>>
    /\ ref_frames \in 0..MaxRefFrames
    /\ ref_opened = FALSE
    /\ ref_pos = 0
    /\ frame_size = ProvisionalSize
    /\ video_writer = [opened |-> FALSE, size |-> ProvisionalSize]
    /\ is_recording = FALSE
    /\ recording = <<>>
    /\ ncalls = 0
    /\ succeeded = <<>>
    /\ last_return = "none"
    /\ ncloses = 0
    /\ after_close = FALSE
    /\ returns = <<>>
    /\ compared = <<>>
    /\ releases = [writer |-> 0, ref |-> 0]
    /\ close_returns = <<>>

NextWs ==
    \/ WsAccept
    \/ WsConstruct
    \/ WsSend
    \/ WsDisconnect
    \/ WsInvalidFrame
    \/ \E size \in Sizes : WsFrame(size)
    \/ WsFinally
    \/ WsAnnotateStart
    \/ WsAnnotateEnd
    \/ WsRemove

SpecWs == InitWs /\ [][NextWs]_vars

\* The handler has left its try block, and its finally block too if that had
\* a session to close.
WsLeft == hpc \in {"annotate", "annotating", "remove", "returned"}

\* C14: the handler never closes a session twice, closes none it did not
\* create, and has closed the one it created once it is past its finally
\* block, however it left the try block.
C14_ClosedExactlyOnce ==
    /\ ncloses <= 1
    /\ ~session => ncloses = 0
    /\ (session /\ WsLeft) => ncloses = 1

\* The session was closed after process_frame raised.
C14_Witness ==
    /\ session /\ hpc = "returned"
    /\ exit_by = "process_fault"
    /\ ncloses = 1

\* C15: the annotation begins only after close() has returned, the raw
\* recording is removed only after the annotation has ended, and nothing of
\* the three happens after the removal.
C15_CloseAnnotateRemove ==
    \A i \in DOMAIN ws_events :
        /\ ws_events[i] = "annotate_begin" =>
               \E k \in 1..(i - 1) : ws_events[k] = "close"
        /\ ws_events[i] = "remove" =>
               /\ \E k \in 1..(i - 1) : ws_events[k] = "annotate_end"
               /\ i = Len(ws_events)

\* The raw recording has been removed at the end of a session that recorded.
C15_Witness ==
    /\ hpc = "returned"
    /\ ws_events = <<"close", "annotate_begin", "annotate_end", "remove">>
    /\ recording # <<>>

\* C17: while the handler is in its receive loop the session is open and
\* recording, also right after an invalid-frame return; that payload is then
\* sent; a call that returns a comparison result puts its frame at the end of
\* the recording; and the session is closed only once the handler has left
\* the loop.
C17_DecodeFailureKeepsSession ==
    [][/\ (session' /\ hpc' \in {"receive", "send"}) =>
              (ncloses' = 0 /\ is_recording' /\ video_writer'.opened)
       /\ (hpc = "receive" /\ last_return' = "invalid_frame"
              /\ Len(returns') > Len(returns)) => hpc' = "send"
       /\ (hpc = "receive" /\ Len(succeeded') > Len(succeeded)) =>
              (recording' # <<>> /\ recording'[Len(recording')] = ncalls')
       /\ ncloses' > 0 => WsLeft']_vars

\* A frame was compared and recorded after an undecodable one, the session
\* still open.
C17_Witness ==
    /\ session /\ ncloses = 0 /\ hpc = "receive"
    /\ \E i, k \in DOMAIN returns :
           i < k /\ returns[i] = "invalid_frame" /\ returns[k] = "result"
    /\ recording # <<>>
    /\ recording[Len(recording)] = ncalls

\* C35: when the raw recording has been removed, the annotated file holds
\* one frame for every frame of the raw recording, in order, frame k (from 0)
\* annotated against frame k mod R of a reference of R frames, as
\* process_frame compared it live.
C35_AnnotatesEveryRecordedFrame ==
    (\E i \in DOMAIN ws_events : ws_events[i] = "remove") =>
        /\ Len(annotated) = Len(recording)
        /\ \A k \in DOMAIN annotated :
               annotated[k] = [frame |-> recording[k], ref |-> (k - 1) % ref_frames]

\* C36: when the handler of a session that was created has returned, however
\* it left its loop, the raw recording at output_path has been removed.
C36_RawRecordingRemoved ==
    (hpc = "returned" /\ session) =>
        \E i \in DOMAIN ws_events : ws_events[i] = "remove"

\* ======================================================== _calculate_score
\* Keypoint coordinates on a grid, in units in which the threshold is whole.
Coords == 0..MaxCoord
Points == Coords \X Coords
Thresholds == (-1)..MaxThreshold

\* The keypoint arrays of n points
Poses(n) == {[present |-> TRUE, pts |-> f] : f \in [1..n -> Points]}

\* np.linalg.norm(p - q), squared
Norm2(p, q) ==
    (p[1] - q[1]) * (p[1] - q[1]) + (p[2] - q[2]) * (p[2] - q[2])

\* A comparison by "distance < threshold".
BelowThreshold(d2, t) == t >= 0 /\ d2 < t * t

\* A comparison by "distance = threshold".
AtThreshold(d2, t) == t >= 0 /\ d2 = t * t

\* line 70: keypoint_distances <= threshold, on the squares when the threshold
\* is not negative; no distance is within a negative threshold.
WithinThreshold(d2, t) == t >= 0 /\ d2 <= t * t

\* A score that is the fraction of the wrong keypoints.
CalculateScoreOfWrong(p1, p2, t) ==
    IF ~p1.present \/ ~p2.present
      THEN [score |-> [num |-> 0, den |-> 1], wrong |-> {}]
      ELSE LET n == Len(p1.pts)
               correct == {i \in 0..(n - 1) :
                             WithinThreshold(Norm2(p1.pts[i + 1], p2.pts[i + 1]), t)}
           IN  [score |-> [num |-> n - Cardinality(correct), den |-> n],
                wrong |-> (0..(n - 1)) \ correct]

\* A function that tests only pose1 for None and takes an absent pose2 for a
\* perfect match.
CalculateScoreFirstOnly(p1, p2, t) ==
    IF ~p1.present
      THEN [score |-> [num |-> 0, den |-> 1], wrong |-> {}]
      ELSE IF ~p2.present
             THEN [score |-> [num |-> 1, den |-> 1], wrong |-> {}]
             ELSE LET n == Len(p1.pts)
                      correct == {i \in 0..(n - 1) :
                                    WithinThreshold(Norm2(p1.pts[i + 1], p2.pts[i + 1]), t)}
                  IN  [score |-> [num |-> Cardinality(correct), den |-> n],
                       wrong |-> (0..(n - 1)) \ correct]

\* _calculate_score (lines 46-80): (0.0, set()) when an array is None;
\* otherwise the indices (from 0) whose distance is not within the threshold,
\* and num_correct / total_keypoints.
CalculateScore(p1, p2, t) ==
    IF ~p1.present \/ ~p2.present
      THEN [score |-> [num |-> 0, den |-> 1], wrong |-> {}]
      ELSE LET n == Len(p1.pts)
               correct == {i \in 0..(n - 1) :
                             WithinThreshold(Norm2(p1.pts[i + 1], p2.pts[i + 1]), t)}
           IN  [score |-> [num |-> Cardinality(correct), den |-> n],
                wrong |-> (0..(n - 1)) \ correct]

\* One call of _calculate_score
Calculate ==
    /\ ~called
    /\ called' = TRUE
    /\ score' = CalculateScore(pose1, pose2, threshold).score
    /\ wrong_keypoints' = CalculateScore(pose1, pose2, threshold).wrong
    /\ UNCHANGED <<pose1, pose2, threshold>>
    /\ UNCHANGED <<jobvars, livevars, drawvars, loopvars, cleanvars>>

\* Two arrays of the same number of points, or None for either, and a
\* threshold.
InitScore ==
    /\ InitJobs
    /\ NewSession(TRUE, 1)
    /\ NoHandler
    /\ Idle
    /\ \E n \in 1..MaxPoints :
           /\ pose1 \in Poses(n) \cup {None}
           /\ pose2 \in Poses(n) \cup {None}
    /\ threshold \in Thresholds
    /\ score = [num |-> 0, den |-> 1]
    /\ wrong_keypoints = {}
    /\ called = FALSE

NextScore == Calculate

SpecScore == InitScore /\ [][NextScore]_vars

C22_ThresholdMonotone ==
    (called /\ pose1.present /\ pose2.present) =>
        \A t2 \in Thresholds :
            threshold < t2 =>
                /\ CalculateScore(pose1, pose2, t2).wrong \subseteq wrong_keypoints
                /\ score.num <= CalculateScore(pose1, pose2, t2).score.num

\* A call at a threshold below another one at which strictly fewer keypoints
\* are wrong, though not none.
C22_Witness ==
    /\ called /\ pose1.present /\ pose2.present
    /\ \E t2 \in Thresholds :
           /\ threshold < t2
           /\ CalculateScore(pose1, pose2, t2).wrong # wrong_keypoints
           /\ CalculateScore(pose1, pose2, t2).wrong # {}

\* C23: when either array is None the call returns score 0 and no wrong
\* keypoint, whatever the threshold and the other array.
C23_AbsentGivesZero ==
    (called /\ (~pose1.present \/ ~pose2.present)) =>
        (score.num = 0 /\ wrong_keypoints = {})

\* A call with pose2 None and pose1 present.
C23_Witness ==
    /\ called /\ pose1.present /\ ~pose2.present
    /\ score.num = 0

\* ================================================================ _draw_pose
\* The landmark indices, and the pairs of them a skeleton may connect
Landmarks == 0..MaxLandmark
Pairs == {c \in Landmarks \X Landmarks : c[1] < c[2]}

\* The set given as wrong_keypoints; None gives no index.
FlaggedSet(w) == IF w.present THEN w.set ELSE {}

\* A limb that is wrong only when both its ends are.
LimbIsWrongBothEnds(w, c) ==
    w.present /\ (c[1] \in w.set /\ c[2] \in w.set)

\* line 121: is_wrong = wrong_keypoints is not None and (start_idx in
\* wrong_keypoints or end_idx in wrong_keypoints)
LimbIsWrong(w, c) ==
    w.present /\ (c[1] \in w.set \/ c[2] \in w.set)

\* line 136: is_wrong = wrong_keypoints is not None and idx in wrong_keypoints
PointIsWrong(w, idx) == w.present /\ idx \in w.set

\* lines 122 and 137: (0, 0, 255) if is_wrong else (0, 255, 0)
Color(is_wrong) == IF is_wrong THEN "red" ELSE "green"

\* _draw_pose, part 2 (lines 112-138): every connection whose two landmarks
\* are visible is drawn as a line, and every visible landmark as a circle, in
\* the colour of its class.
DrawPose(conn, vis, w) ==
    [limbs  |-> [c \in {d \in conn : d[1] \in vis /\ d[2] \in vis} |->
                    Color(LimbIsWrong(w, c))],
     points |-> [idx \in vis |-> Color(PointIsWrong(w, idx))]]

\* One call of _draw_pose with a detected pose
Draw ==
    /\ ~drawn
    /\ drawn' = TRUE
    /\ limb_color' = DrawPose(connections, visible, flagged).limbs
    /\ point_color' = DrawPose(connections, visible, flagged).points
    /\ UNCHANGED <<connections, visible, flagged>>
    /\ UNCHANGED <<jobvars, livevars, scorevars, loopvars, cleanvars>>

\* Any skeleton over the landmarks, any visible landmarks, and wrong_keypoints
\* None or any set of indices.
InitDraw ==
    /\ InitJobs
    /\ NewSession(TRUE, 1)
    /\ NoHandler
    /\ NoScore
    /\ NoLoop
    /\ NoCleanup
    /\ connections \in SUBSET Pairs
    /\ visible \in SUBSET Landmarks
    /\ flagged \in {NoFlags} \cup {[present |-> TRUE, set |-> x] : x \in SUBSET Landmarks}
    /\ limb_color = <<>>
    /\ point_color = <<>>
    /\ drawn = FALSE

NextDraw == Draw

SpecDraw == InitDraw /\ [][NextDraw]_vars

\* C24: a limb drawn is red exactly when one of its two ends is in
\* wrong_keypoints, a point drawn is red exactly when its index is; with
\* wrong_keypoints empty or None everything drawn is green.
C24_WrongIffEndpointFlagged ==
    drawn =>
        /\ \A c \in DOMAIN limb_color :
               (limb_color[c] = "red") <=>
                   (c[1] \in FlaggedSet(flagged) \/ c[2] \in FlaggedSet(flagged))
        /\ \A idx \in DOMAIN point_color :
               (point_color[idx] = "red") <=> (idx \in FlaggedSet(flagged))
        /\ FlaggedSet(flagged) = {} =>
               /\ \A c \in DOMAIN limb_color : limb_color[c] = "green"
               /\ \A idx \in DOMAIN point_color : point_color[idx] = "green"

\* A limb was drawn red with only one of its ends flagged, next to a green one.
C24_Witness ==
    /\ drawn /\ flagged.present
    /\ \E c \in DOMAIN limb_color :
           /\ limb_color[c] = "red"
           /\ ~(c[1] \in flagged.set /\ c[2] \in flagged.set)
    /\ \E c \in DOMAIN limb_color : limb_color[c] = "green"

\* ============================== process_video_files, the frame loop alone
\* A percentage taken over the whole 0-100 range on top of the offset.
PercentageUnscaled(i, n) == 20 + ((i * 100) \div n)

\* line 313: 20 + int((i / total_frames) * 70); int() of a value that is not
\* negative drops the fraction
Percentage(i, n) == 20 + ((i * 70) \div n)

\* An iteration that writes its frame before it looks at what the reads gave.
LoopTurnWritesFirst ==
    /\ loop_pc = "loop"
    /\ IF frame_i >= n_frames
         THEN /\ loop_pc' = "finally"
              /\ UNCHANGED <<frame_i, written, both_read, stopped_early,
                             loop_errors, progress>>
         ELSE \E outcome \in {"no_frame", "raise", "ok"} :
                CASE outcome = "no_frame" ->
                       /\ loop_pc' = "finally"
                       /\ written' = written + 1
                       /\ stopped_early' = TRUE
                       /\ UNCHANGED <<frame_i, both_read, loop_errors, progress>>
                  [] outcome = "raise" ->
                       /\ loop_pc' = "finally"
                       /\ both_read' = both_read + 1
                       /\ loop_errors' = loop_errors + 1
                       /\ UNCHANGED <<frame_i, written, stopped_early, progress>>
                  [] OTHER ->
                       /\ both_read' = both_read + 1
                       /\ written' = written + 1
                       /\ progress' = IF frame_i % ProgressEvery = 0
                                        THEN Append(progress,
                                                 [step |-> "processing_frames",
                                                  percentage |-> Percentage(frame_i, n_frames)])
                                        ELSE progress
                       /\ frame_i' = frame_i + 1
                       /\ UNCHANGED <<loop_pc, stopped_early, loop_errors>>
    /\ UNCHANGED n_frames
    /\ UNCHANGED <<jobvars, livevars, scorevars, drawvars, cleanvars>>

\* lines 288-319, one turn of "for i in range(total_frames)": the range is
\* used up; or one of the two reads gives no frame (break, line 293); or the
\* processing of the frames raises (the except clause puts an error item); or
\* the composed frame is written and, every ProgressEvery frames, a progress
\* item is put.
LoopTurn ==
    /\ loop_pc = "loop"
    /\ IF frame_i >= n_frames
         THEN /\ loop_pc' = "finally"
              /\ UNCHANGED <<frame_i, written, both_read, stopped_early,
                             loop_errors, progress>>
         ELSE \E outcome \in {"no_frame", "raise", "ok"} :
                CASE outcome = "no_frame" ->
                       /\ loop_pc' = "finally"
                       /\ stopped_early' = TRUE
                       /\ UNCHANGED <<frame_i, written, both_read, loop_errors, progress>>
                  [] outcome = "raise" ->
                       /\ loop_pc' = "finally"
                       /\ both_read' = both_read + 1
                       /\ loop_errors' = loop_errors + 1
                       /\ UNCHANGED <<frame_i, written, stopped_early, progress>>
                  [] OTHER ->
                       /\ both_read' = both_read + 1
                       /\ written' = written + 1
                       /\ progress' = IF frame_i % ProgressEvery = 0
                                        THEN Append(progress,
                                                 [step |-> "processing_frames",
                                                  percentage |-> Percentage(frame_i, n_frames)])
                                        ELSE progress
                       /\ frame_i' = frame_i + 1
                       /\ UNCHANGED <<loop_pc, stopped_early, loop_errors>>
    /\ UNCHANGED n_frames
    /\ UNCHANGED <<jobvars, livevars, scorevars, drawvars, cleanvars>>

\* lines 321-327: finally: the progress items "saving_video" (95) and
\* "completed" (100)
LoopFinally ==
    /\ loop_pc = "finally"
    /\ progress' = progress \o <<[step |-> "saving_video", percentage |-> 95],
                                 [step |-> "completed", percentage |-> 100]>>
    /\ loop_pc' = "returned"
    /\ UNCHANGED <<n_frames, frame_i, written, both_read, stopped_early, loop_errors>>
    /\ UNCHANGED <<jobvars, livevars, scorevars, drawvars, cleanvars>>

\* The loop is entered with total_frames >= 1 (line 272 has raised otherwise).
InitLoop ==
    /\ InitJobs
    /\ NewSession(TRUE, 1)
    /\ NoHandler
    /\ NoScore
    /\ NoDraw
    /\ NoCleanup
    /\ n_frames \in 1..MaxTotalFrames
    /\ frame_i = 0
    /\ loop_pc = "loop"
    /\ written = 0
    /\ both_read = 0
    /\ stopped_early = FALSE
    /\ loop_errors = 0
    /\ progress = <<>>

NextLoop == LoopTurn \/ LoopFinally

SpecLoop == InitLoop /\ [][NextLoop]_vars

\* C25: every progress item put by process_video_files has a percentage in
\* 0..100, and every "processing_frames" item one in 20..90.
C25_PercentageInRange ==
    \A k \in DOMAIN progress :
        /\ progress[k].percentage \in 0..100
        /\ progress[k].step = "processing_frames" =>
               progress[k].percentage \in 20..90

\* Progress was reported for a frame late in a video, and at the end.
C25_Witness ==
    /\ loop_pc = "returned"
    /\ \E k \in DOMAIN progress :
           /\ progress[k].step = "processing_frames"
           /\ progress[k].percentage > 80
    /\ progress[Len(progress)].percentage = 100

\* C30: when the loop has been left by its break, no error item was put, and
\* the output holds one frame for each iteration in which both reads gave a
\* frame; it never holds more than total_frames frames.
C30_EarlyStopIsNotAnError ==
    /\ written <= n_frames
    /\ stopped_early =>
           /\ loop_errors = 0
           /\ written = both_read
           /\ written = frame_i
           /\ written < n_frames

\* A source ran out after some frames had been written.
C30_Witness ==
    /\ stopped_early /\ loop_pc = "returned"
    /\ written >= 2
    /\ written < n_frames

\* ============================================== cleanup_files, file by file
\* The lists of at most n paths
Lists(n) == UNION {[1..k -> Paths] : k \in 0..n}

\* line 70: the first print
CleanupStart ==
    /\ cl_printed = <<>>
    /\ cl_printed' = <<"L70">>
    /\ UNCHANGED <<cl_files, cl_i, cl_fs, cl_fs0, cl_removes, cl_raised>>
    /\ UNCHANGED <<jobvars, livevars, scorevars, drawvars, loopvars>>

\* A loop that is inside the try block instead of around it: the first
\* failure ends it.
CleanupTurnStopsAtFailure ==
    /\ cl_printed # <<>>
    /\ cl_i <= Len(cl_files)
    /\ LET f == cl_files[cl_i]
       IN  CASE cl_fs[f] = "absent" ->
                  /\ cl_i' = cl_i + 1
                  /\ UNCHANGED <<cl_fs, cl_removes, cl_printed>>
             [] cl_fs[f] = "locked" ->
                  /\ cl_i' = Len(cl_files) + 1
                  /\ cl_removes' = cl_removes \cup {f}
                  /\ cl_printed' = Append(cl_printed, "L77")
                  /\ UNCHANGED cl_fs
             [] OTHER ->
                  /\ cl_i' = cl_i + 1
                  /\ cl_removes' = cl_removes \cup {f}
                  /\ cl_fs' = [cl_fs EXCEPT ![f] = "absent"]
                  /\ cl_printed' = Append(cl_printed, "L75")
    /\ UNCHANGED <<cl_files, cl_fs0, cl_raised>>
    /\ UNCHANGED <<jobvars, livevars, scorevars, drawvars, loopvars>>

\* lines 71-77, one file_path of the list: a path that does not exist is
\* passed over; os.remove is called on one that exists, and either removes it
\* (printed, line 75) or raises, which the except clause of this iteration
\* catches and prints (line 77).
CleanupTurn ==
    /\ cl_printed # <<>>
    /\ cl_i <= Len(cl_files)
    /\ LET f == cl_files[cl_i]
       IN  CASE cl_fs[f] = "absent" ->
                  UNCHANGED <<cl_fs, cl_removes, cl_printed>>
             [] cl_fs[f] = "locked" ->
                  /\ cl_removes' = cl_removes \cup {f}
                  /\ cl_printed' = Append(cl_printed, "L77")
                  /\ UNCHANGED cl_fs
             [] OTHER ->
                  /\ cl_removes' = cl_removes \cup {f}
                  /\ cl_fs' = [cl_fs EXCEPT ![f] = "absent"]
                  /\ cl_printed' = Append(cl_printed, "L75")
    /\ cl_i' = cl_i + 1
    /\ UNCHANGED <<cl_files, cl_fs0, cl_raised>>
    /\ UNCHANGED <<jobvars, livevars, scorevars, drawvars, loopvars>>

\* Any list of paths, each path there, not there, or there and not removable.
InitCleanup ==
    /\ InitJobs
    /\ NewSession(TRUE, 1)
    /\ NoHandler
    /\ NoScore
    /\ NoDraw
    /\ NoLoop
    /\ cl_files \in Lists(MaxList)
    /\ cl_i = 1
    /\ cl_fs \in [Paths -> {"present", "absent", "locked"}]
    /\ cl_fs0 = cl_fs
    /\ cl_removes = {}
    /\ cl_raised = FALSE
    /\ cl_printed = <<>>

NextCleanup == CleanupStart \/ CleanupTurn

SpecCleanup == InitCleanup /\ [][NextCleanup]_vars

\* cleanup_files has returned.
CleanupDone == cl_printed # <<>> /\ cl_i > Len(cl_files)

\* The paths in the list
Listed == {cl_files[k] : k \in DOMAIN cl_files}

\* C29: cleanup_files never raises; when it has returned, os.remove was
\* called on exactly the listed paths that existed, whether or not an earlier
\* one failed, every listed path that could be removed is gone, and no other
\* path was touched.
C29_CleanupIsBestEffort ==
    /\ ~cl_raised
    /\ CleanupDone =>
           /\ cl_removes = {f \in Listed : cl_fs0[f] # "absent"}
           /\ \A f \in Listed : cl_fs0[f] = "present" => cl_fs[f] = "absent"
           /\ \A f \in Paths : (f \notin Listed \/ cl_fs0[f] # "present") =>
                  cl_fs[f] = cl_fs0[f]

\* A removal failed, and a file after it in the list was removed, one that
\* does not exist having been passed over.
C29_Witness ==
    /\ CleanupDone
    /\ Len(cl_files) = 3
    /\ cl_fs0[cl_files[1]] = "locked"
    /\ cl_fs0[cl_files[2]] = "absent"
    /\ cl_fs0[cl_files[3]] = "present"
    /\ cl_fs[cl_files[3]] = "absent"

====
